---- MODULE Spec2Model ----
(***************************************************************************)
(* steamguard/src/steamapi.rs: SteamApiClient, the session it holds and    *)
(* the cookie jar it keeps next to it.                                     *)
(*                                                                         *)
(* A public method that talks to the network is two steps, split at the    *)
(* blocking `.send()?`: <method>_send builds the request (through the      *)
(* request facade or straight on the inner reqwest client) and blocks,     *)
(* <method>_recv takes the response the server chose and runs the rest of  *)
(* the method.  The client is single threaded: while a method is blocked   *)
(* no other method starts.  A panic (unwrap/expect/todo!) ends the run.    *)
(*                                                                         *)
(* Text is a sequence of one-character strings wherever the code parses or *)
(* concatenates it (steamid, the guard tokens, the login cookies).         *)
(***************************************************************************)
EXTENDS Integers, Sequences, FiniteSets, TLC

\* ------------------------------------------------------------------ bounds
\* Longest list of Set-Cookie headers on one response.
MaxSetCookie == 2
\* Longest transfer_urls list in a login response.
MaxUrls == 2

\* ------------------------------------------------------------- Option<T>
None == [some |-> FALSE]
Some(v) == [some |-> TRUE, val |-> v]

\* --------------------------------------------------------------- inputs
\* Session identifiers the server hands out in Set-Cookie: sessionid=...
SidVals == {"s1", "s2"}

\* steamid strings a login response can carry: two that parse ("1", "+76"),
\* and three that do not ("x", "", 2^64).
U64MaxDigits ==
    <<"1","8","4","4","6","7","4","4","0","7","3","7","0","9","5","5","1","6","1","5">>
TwoPow64Digits ==
    <<"1","8","4","4","6","7","4","4","0","7","3","7","0","9","5","5","1","6","1","6">>
OAuthSteamIds == {<<"1">>, <<"+","7","6">>, <<"x">>, <<>>, TwoPow64Digits}
TransferSteamIds == {<<"1">>, <<"x">>}

\* format!("{}%7C%7C{}", ..) separator
Sep == <<"%","7","C","%","7","C">>

\* OAuthData (api_responses, used at 99-111 and 244-250)
OAuthDatas ==
    [oauth_token : {<<"T">>}, steamid : OAuthSteamIds, wgtoken : {<<"A">>},
     wgtoken_secure : {<<"B">>}, webcookie : {<<"W">>}]

\* LoginTransferParameters, as read at 245-249
TransferParameters ==
    [auth : {<<"U">>}, steamid : TransferSteamIds, token_secure : {<<"C">>},
     webcookie : {<<"V">>}]

TransferUrls == {"u1", "u2"}
UrlLists == UNION {[1..n -> TransferUrls] : n \in 0..MaxUrls}

\* LoginResponse, as far as this file reads it (225, 235)
LoginResponses ==
    [oauth : {None} \cup {Some(o) : o \in OAuthDatas},
     transfer_urls : {None} \cup {Some(u) : u \in UrlLists},
     transfer_parameters : {None} \cup {Some(p) : p \in TransferParameters}]

\* ---------------------------------------------------- str::parse::<u64>
Digits == {"0","1","2","3","4","5","6","7","8","9"}

DigitVal(c) ==
    CASE c = "0" -> 0 [] c = "1" -> 1 [] c = "2" -> 2 [] c = "3" -> 3
      [] c = "4" -> 4 [] c = "5" -> 5 [] c = "6" -> 6 [] c = "7" -> 7
      [] c = "8" -> 8 [] c = "9" -> 9

RECURSIVE StripZeros(_)
StripZeros(s) ==
    IF Len(s) > 1 /\ Head(s) = "0" THEN StripZeros(Tail(s)) ELSE s

\* d > e for two digit strings of the same length
RECURSIVE DigitsGreater(_, _)
DigitsGreater(d, e) ==
    IF d = <<>> THEN FALSE
    ELSE IF Head(d) # Head(e) THEN DigitVal(Head(d)) > DigitVal(Head(e))
    ELSE DigitsGreater(Tail(d), Tail(e))

\* checked_mul/checked_add overflow of the accumulated value past u64::MAX
OverflowsU64(d) ==
    LET z == StripZeros(d) IN
    \/ Len(z) > Len(U64MaxDigits)
    \/ Len(z) = Len(U64MaxDigits) /\ DigitsGreater(z, U64MaxDigits)

RECURSIVE Horner(_, _)
Horner(acc, d) ==
    IF d = <<>> THEN acc ELSE Horner(acc * 10 + DigitVal(Head(d)), Tail(d))

\* Ok(n) or Err: empty, a lone sign, a non-digit, or overflow is an error;
\* one leading "+" is accepted (u64 takes no "-").  Overflow is decided on
\* the digits; the value is computed only for strings that parse, and the
\* steamids drawn above that parse are small.
ParseU64(s) ==
    IF s = <<>> THEN None
    ELSE LET d == IF Head(s) = "+" THEN Tail(s) ELSE s IN
         IF d = <<>> THEN None
         ELSE IF \E i \in 1..Len(d) : d[i] \notin Digits THEN None
         ELSE IF OverflowsU64(d) THEN None
         ELSE Some(Horner(0, d))

\* ------------------------------------------------------------ cookie jar
\* self.cookies, scoped to STEAM_COOKIE_URL: cookie name -> Option<value>.
\* CookieOrder is the order Jar::cookies lists them in.
CookieOrder == <<"mobileClientVersion", "mobileClient", "Steam_Language", "sessionid">>
CookieNames == {CookieOrder[i] : i \in 1..Len(CookieOrder)}
EmptyJar == [n \in CookieNames |-> None]

\* A cookie string: one that cookie::Cookie::parse accepts, or one it rejects.
CookieStr(n, v) == [parses |-> TRUE, name |-> n, value |-> v]
Unparsable == [parses |-> FALSE]

\* a jar that joins the new value to the one already stored under the name
add_cookie_str_appends(jar, c) ==
    IF ~c.parses THEN jar
    ELSE IF jar[c.name].some
      THEN [jar EXCEPT ![c.name] = Some(jar[c.name].val \o ";" \o c.value)]
    ELSE [jar EXCEPT ![c.name] = Some(c.value)]

\* Jar::add_cookie_str: a string that does not parse is dropped silently,
\* one that parses replaces the cookie of the same name.
add_cookie_str(jar, c) ==
    IF c.parses THEN [jar EXCEPT ![c.name] = Some(c.value)] ELSE jar

\* Jar::cookies(&STEAM_COOKIE_URL): None for an empty jar, else the pairs
\* joined into one header value.
RECURSIVE HeaderPairs(_, _)
HeaderPairs(jar, i) ==
    IF i > Len(CookieOrder) THEN <<>>
    ELSE (IF jar[CookieOrder[i]].some
            THEN << <<CookieOrder[i], jar[CookieOrder[i]].val>> >>
            ELSE <<>>) \o HeaderPairs(jar, i + 1)

cookies_header(jar) ==
    IF HeaderPairs(jar, 1) = <<>> THEN None ELSE Some(HeaderPairs(jar, 1))

\* The Set-Cookie header values of a response: bytes that are no text
\* (to_str fails) or a cookie string.
NotText == [text |-> FALSE]
Text(c) == [text |-> TRUE, str |-> c]
SetCookieValues ==
    {NotText, Text(Unparsable)} \cup {Text(CookieStr("sessionid", v)) : v \in SidVals}
SetCookieLists == UNION {[1..n -> SetCookieValues] : n \in 0..MaxSetCookie}

\* the merge giving up at the first header it cannot store
RECURSIVE save_cookies_from_response_stops_at_malformed(_, _)
save_cookies_from_response_stops_at_malformed(jar, set_cookie) ==
    IF set_cookie = <<>> THEN jar
    ELSE IF ~Head(set_cookie).text \/ ~Head(set_cookie).str.parses THEN jar
    ELSE save_cookies_from_response_stops_at_malformed(
             add_cookie_str(jar, Head(set_cookie).str), Tail(set_cookie))

RECURSIVE save_cookies_from_response(_, _)
save_cookies_from_response(jar, set_cookie) ==
    IF set_cookie = <<>> THEN jar
    ELSE save_cookies_from_response(
             IF Head(set_cookie).text
               THEN add_cookie_str(jar, Head(set_cookie).str) ELSE jar,
             Tail(set_cookie))

\* ----------------------------------------------------------- outcomes
Pending == [kind |-> "pending"]
Ok(v) == [kind |-> "ok", val |-> v]
Err(class, msg) == [kind |-> "err", class |-> class, msg |-> msg]
Panic(msg) == [kind |-> "panic", msg |-> msg]

\* --------------------------------------------------- session building
\* extract_session_id: unwrap of Jar::cookies panics on an empty jar; else
\* the value of the first cookie named sessionid, if any.
RECURSIVE FirstSessionId(_)
FirstSessionId(pairs) ==
    IF pairs = <<>> THEN None
    ELSE IF Head(pairs)[1] = "sessionid" THEN Some(Head(pairs)[2])
    ELSE FirstSessionId(Tail(pairs))

extract_session_id(jar) ==
    IF ~cookies_header(jar).some
      THEN Panic("called Option::unwrap() on a None value")
      ELSE Ok(FirstSessionId(cookies_header(jar).val))

\* build_session with the two guard tokens taken the wrong way round
build_session_swapped(jar, data) ==
    IF ~ParseU64(data.steamid).some
      THEN Panic("called Result::unwrap() on an Err value: ParseIntError")
    ELSE IF extract_session_id(jar).kind = "panic" THEN extract_session_id(jar)
    ELSE IF ~extract_session_id(jar).val.some
      THEN Panic("failed to extract session id from cookies")
    ELSE Ok([token |-> data.oauth_token,
             steam_id |-> ParseU64(data.steamid).val,
             steam_login |-> data.steamid \o Sep \o data.wgtoken_secure,
             steam_login_secure |-> data.steamid \o Sep \o data.wgtoken,
             session_id |-> extract_session_id(jar).val.val,
             web_cookie |-> Some(data.webcookie)])

\* build_session: the fields are evaluated in the order written.
\* build_session falling back to an empty session_id
build_session_default_session_id(jar, data) ==
    IF ~ParseU64(data.steamid).some
      THEN Panic("called Result::unwrap() on an Err value: ParseIntError")
    ELSE IF extract_session_id(jar).kind = "panic" THEN extract_session_id(jar)
    ELSE Ok([token |-> data.oauth_token,
             steam_id |-> ParseU64(data.steamid).val,
             steam_login |-> data.steamid \o Sep \o data.wgtoken,
             steam_login_secure |-> data.steamid \o Sep \o data.wgtoken_secure,
             session_id |-> IF extract_session_id(jar).val.some
                              THEN extract_session_id(jar).val.val ELSE "",
             web_cookie |-> Some(data.webcookie)])

build_session(jar, data) ==
    IF ~ParseU64(data.steamid).some
      THEN Panic("called Result::unwrap() on an Err value: ParseIntError")
    ELSE IF extract_session_id(jar).kind = "panic" THEN extract_session_id(jar)
    ELSE IF ~extract_session_id(jar).val.some
      THEN Panic("failed to extract session id from cookies")
    ELSE Ok([token |-> data.oauth_token,
             steam_id |-> ParseU64(data.steamid).val,
             steam_login |-> data.steamid \o Sep \o data.wgtoken,
             steam_login_secure |-> data.steamid \o Sep \o data.wgtoken_secure,
             session_id |-> extract_session_id(jar).val.val,
             web_cookie |-> Some(data.webcookie)])

\* the OAuthData with the plain guard token taken from auth
TransferOAuth_wgtoken_from_auth(params) ==
    [oauth_token |-> params.auth,
     steamid |-> params.steamid,
     wgtoken |-> params.auth,
     wgtoken_secure |-> params.token_secure,
     webcookie |-> params.webcookie]

\* transfer_login 244-250: the OAuthData made from the transfer parameters
TransferOAuth(params) ==
    [oauth_token |-> params.auth,
     steamid |-> params.steamid,
     wgtoken |-> params.token_secure,
     wgtoken_secure |-> params.token_secure,
     webcookie |-> params.webcookie]

\* --------------------------------------------------------- request facade
\* request(): the three identity cookies are forced into the jar, then the
\* session's sessionid if there is a session; the Cookie header is the jar.
identity_cookies(jar) ==
    add_cookie_str(
        add_cookie_str(
            add_cookie_str(jar, CookieStr("mobileClientVersion", "0 (2.1.3)")),
            CookieStr("mobileClient", "android")),
        CookieStr("Steam_Language", "english"))

\* request() leaving a sessionid the jar already holds in place
request_cookies_keeps_jar_sessionid(sess, jar) ==
    IF sess.some /\ ~jar["sessionid"].some
      THEN add_cookie_str(identity_cookies(jar),
                          CookieStr("sessionid", sess.val.session_id))
      ELSE identity_cookies(jar)

\* request() without the sessionid injection of 149-154
request_cookies_identity_only(sess, jar) == identity_cookies(jar)

request_cookies(sess, jar) ==
    IF sess.some
      THEN add_cookie_str(identity_cookies(jar),
                          CookieStr("sessionid", sess.val.session_id))
      ELSE identity_cookies(jar)

request(sess, jar, url) ==
    [via |-> "request", url |-> url,
     cookie |-> cookies_header(request_cookies(sess, jar))]

\* self.client.post(url): the inner reqwest client; request() is bypassed, so
\* no Cookie header is built from self.cookies.  (The client's own
\* cookie_store(true) only replays what responses set; the identity cookies
\* and the session's sessionid are put into self.cookies alone.)
client_post(url) == [via |-> "client", url |-> url, cookie |-> None]

\* ------------------------------------------------------------- responses
\* What the server (or the network) answers: a transport failure of send(),
\* or a response with its Set-Cookie headers and its body.
Responses(bodies) ==
    {[ok |-> FALSE]} \cup [ok : {TRUE}, set_cookie : SetCookieLists, body : bodies]

\* A body nobody reads (update_session, the transfer relays).
NoBody == {[kind |-> "ignored"]}

\* login 220-223: text() fails, or the text is no LoginResponse, or it is one
LoginBodies ==
    {[kind |-> "text_err"], [kind |-> "undecodable"]}
        \cup {[kind |-> "json", val |-> r] : r \in LoginResponses}

\* serde_json::Value as phoneajax probes it: an object with any of the two
\* fields it looks at, each null, a boolean or a string; or no object at all.
JNull == [t |-> "null"]
JBool(b) == [t |-> "bool", b |-> b]
JString == [t |-> "string"]
JArray == [t |-> "array"]
JObject(f) == [t |-> "object", fields |-> f]
JFieldValues == {JNull, JBool(TRUE), JBool(FALSE), JString}
JObjects ==
    {JObject(f) : f \in UNION {[D -> JFieldValues] : D \in SUBSET {"has_phone", "success"}}}
PhoneAjaxBodies ==
    {[kind |-> "undecodable"]} \cup {[kind |-> "json", val |-> v] : v \in JObjects \cup {JArray}}

\* Value's Index<&str>: Null for a missing key and for a value that is no object
JIndex(v, key) ==
    IF v.t = "object" /\ key \in DOMAIN v.fields THEN v.fields[key] ELSE JNull

as_bool(v) == IF v.t = "bool" THEN Some(v.b) ELSE None

\* phoneajax probing success before has_phone
phoneajax_probe_success_first(r) ==
    IF JIndex(r, "success").t # "null"
      THEN IF as_bool(JIndex(r, "success")).some
             THEN Ok(as_bool(JIndex(r, "success")).val)
             ELSE Err("anyhow", "failed to parse success field into boolean")
    ELSE IF JIndex(r, "has_phone").t # "null"
      THEN IF as_bool(JIndex(r, "has_phone")).some
             THEN Ok(as_bool(JIndex(r, "has_phone")).val)
             ELSE Err("anyhow", "failed to parse has_phone field into boolean")
    ELSE Ok(FALSE)

\* phoneajax 292-305
phoneajax_probe(r) ==
    IF JIndex(r, "has_phone").t # "null"
      THEN IF as_bool(JIndex(r, "has_phone")).some
             THEN Ok(as_bool(JIndex(r, "has_phone")).val)
             ELSE Err("anyhow", "failed to parse has_phone field into boolean")
    ELSE IF JIndex(r, "success").t # "null"
      THEN IF as_bool(JIndex(r, "success")).some
             THEN Ok(as_bool(JIndex(r, "success")).val)
             ELSE Err("anyhow", "failed to parse success field into boolean")
    ELSE Ok(FALSE)

\* A typed envelope (SteamApiResponse<T>, PhoneValidateResponse): the body
\* decodes or it does not; text() can fail before that.
EnvelopeBodies == {[kind |-> "text_err"], [kind |-> "undecodable"], [kind |-> "json"]}

\* ---------------------------------------------------------------- state
VARIABLES
    session,     \* self.session: Option<Session>
    cookies,     \* self.cookies: the jar
    pc,          \* "idle", the method blocked in send(), or "panicked"
    op,          \* the public method running now or last
    sent,        \* the requests that method has sent, in order
    result,      \* what it returned: Ok, Err, a panic; Pending while it runs
    login_resp,  \* the LoginResponse login() returned, then transfer_login's argument
    relay,       \* transfer_login's locals: urls, params, index of the next url
    session0,    \* self.session when the method was entered
    cookies0,    \* self.cookies when the method was entered
    resp,        \* the response that method received last, if any
    disk,        \* the JSON a Session was serialized to, if one was
    loaded       \* what deserializing disk gave, if it was deserialized

vars ==
    <<session, cookies, pc, op, sent, result, login_resp, relay, session0, cookies0,
      resp, disk, loaded>>

\* A Session loaded from disk by the caller and handed to new().
StoredSession ==
    [token |-> <<"T">>, steam_id |-> 1,
     steam_login |-> <<"1">> \o Sep \o <<"A">>,
     steam_login_secure |-> <<"1">> \o Sep \o <<"B">>,
     session_id |-> "s1", web_cookie |-> None]

\* SteamApiClient::new(session): an empty jar, the session the caller passed
Init ==
    /\ session \in {None, Some(StoredSession)}
    /\ cookies = EmptyJar
    /\ pc = "idle"
    /\ op = "new"
    /\ sent = <<>>
    /\ result = Ok("client")
    /\ login_resp = None
    /\ relay = None
    /\ session0 = session
    /\ cookies0 = cookies
    /\ resp = None
    /\ disk = None
    /\ loaded = None

\* A method is entered: the caller is not inside another one.
Enter(name) ==
    /\ pc = "idle"
    /\ op' = name
    /\ session0' = session
    /\ cookies0' = cookies
    /\ resp' = None
    /\ UNCHANGED <<disk, loaded>>

\* The method blocks in send() with the request req on the wire.
Block(name, req, jar) ==
    /\ pc' = name
    /\ sent' = <<req>>
    /\ cookies' = jar
    /\ result' = Pending
    /\ UNCHANGED session

\* The method ends before any request: an Err returned or a panic.
Bail(res) ==
    /\ pc' = IF res.kind = "panic" THEN "panicked" ELSE "idle"
    /\ sent' = <<>>
    /\ result' = res
    /\ UNCHANGED <<session, cookies>>

\* The blocked method ends with res, leaving sess and jar in the client.
Finish(res, sess, jar) ==
    /\ pc' = IF res.kind = "panic" THEN "panicked" ELSE "idle"
    /\ result' = res
    /\ session' = sess
    /\ cookies' = jar
    /\ UNCHANGED <<op, sent, session0, cookies0, disk, loaded>>

\* -------------------------------------------------------- update_session
update_session_send ==
    /\ Enter("update_session")
    /\ Block("update_session",
             request(session, cookies, "https://steamcommunity.com/login"),
             request_cookies(session, cookies))
    /\ login_resp' = None
    /\ relay' = None

\* update_session writing the jar's new sessionid into the stored session
update_session_recv_refreshes_session_id ==
    /\ pc = "update_session"
    /\ \E r \in Responses(NoBody) :
         /\ resp' = Some(r)
         /\ IF ~r.ok
              THEN Finish(Err("reqwest", "send"), session, cookies)
              ELSE LET jar == save_cookies_from_response(cookies, r.set_cookie) IN
                   Finish(Ok("()"),
                          IF session.some /\ jar["sessionid"].some
                            THEN Some([session.val EXCEPT
                                         !.session_id = jar["sessionid"].val])
                            ELSE session,
                          jar)
    /\ UNCHANGED <<login_resp, relay>>

update_session_recv ==
    /\ pc = "update_session"
    /\ \E r \in Responses(NoBody) :
         /\ resp' = Some(r)
         /\ IF ~r.ok
              THEN Finish(Err("reqwest", "send"), session, cookies)
              ELSE Finish(Ok("()"), session,
                          save_cookies_from_response(cookies, r.set_cookie))
    /\ UNCHANGED <<login_resp, relay>>

\* ----------------------------------------------------------------- login
login_send ==
    /\ Enter("login")
    /\ Block("login",
             request(session, cookies, "https://steamcommunity.com/login/dologin"),
             request_cookies(session, cookies))
    /\ login_resp' = None
    /\ relay' = None

\* login with the merge of 219 moved behind the decoding of 223
login_handle_decodes_before_merge(r) ==
    LET jar == save_cookies_from_response(cookies, r.set_cookie) IN
    IF r.body.kind = "text_err"
      THEN Finish(Err("reqwest", "body"), session, cookies) /\ login_resp' = None
    ELSE IF r.body.kind = "undecodable"
      THEN Finish(Err("serde_json", "decode"), session, cookies) /\ login_resp' = None
    ELSE IF ~r.body.val.oauth.some
      THEN Finish(Ok(r.body.val), session, jar) /\ login_resp' = Some(r.body.val)
    ELSE IF build_session(jar, r.body.val.oauth.val).kind = "panic"
      THEN /\ Finish(build_session(jar, r.body.val.oauth.val), session, jar)
           /\ login_resp' = None
    ELSE /\ Finish(Ok(r.body.val),
                   Some(build_session(jar, r.body.val.oauth.val).val), jar)
         /\ login_resp' = Some(r.body.val)

\* login 219-229, for a response that arrived
login_handle(r) ==
    LET jar == save_cookies_from_response(cookies, r.set_cookie) IN
    IF r.body.kind = "text_err"
      THEN Finish(Err("reqwest", "body"), session, jar) /\ login_resp' = None
    ELSE IF r.body.kind = "undecodable"
      THEN Finish(Err("serde_json", "decode"), session, jar) /\ login_resp' = None
    ELSE IF ~r.body.val.oauth.some
      THEN Finish(Ok(r.body.val), session, jar) /\ login_resp' = Some(r.body.val)
    ELSE IF build_session(jar, r.body.val.oauth.val).kind = "panic"
      THEN /\ Finish(build_session(jar, r.body.val.oauth.val), session, jar)
           /\ login_resp' = None
    ELSE /\ Finish(Ok(r.body.val),
                   Some(build_session(jar, r.body.val.oauth.val).val), jar)
         /\ login_resp' = Some(r.body.val)

\* login dropping the session it holds when the send fails
login_recv_drops_session_on_failure ==
    /\ pc = "login"
    /\ \E r \in Responses(LoginBodies) :
         /\ resp' = Some(r)
         /\ IF ~r.ok
              THEN Finish(Err("reqwest", "send"), None, cookies) /\ login_resp' = None
              ELSE login_handle(r)
    /\ UNCHANGED relay

login_recv ==
    /\ pc = "login"
    /\ \E r \in Responses(LoginBodies) :
         /\ resp' = Some(r)
         /\ IF ~r.ok
              THEN Finish(Err("reqwest", "send"), session, cookies) /\ login_resp' = None
              ELSE login_handle(r)
    /\ UNCHANGED relay

\* -------------------------------------------------------- transfer_login
\* The caller passes the LoginResponse login() just returned to it (it is
\* moved into the call, so it is passed once); the match at 235.
\* the match with the (None, None) arm after the (_, None) arm
transfer_match_arms_reordered(lr) ==
    IF lr.transfer_urls.some /\ lr.transfer_parameters.some
      THEN "relay"
    ELSE IF ~lr.transfer_parameters.some
      THEN "did not receive transfer_parameters"
    ELSE "did not receive transfer_urls"

\* the match with one message for every arm that bails
transfer_match_one_message(lr) ==
    IF lr.transfer_urls.some /\ lr.transfer_parameters.some
      THEN "relay"
    ELSE "did not receive transfer_urls and transfer_parameters"

transfer_match(lr) ==
    IF lr.transfer_urls.some /\ lr.transfer_parameters.some
      THEN "relay"
    ELSE IF ~lr.transfer_urls.some /\ ~lr.transfer_parameters.some
      THEN "did not receive transfer_urls and transfer_parameters"
    ELSE IF ~lr.transfer_parameters.some
      THEN "did not receive transfer_parameters"
    ELSE "did not receive transfer_urls"

transfer_login ==
    /\ Enter("transfer_login")
    /\ op = "login"
    /\ login_resp.some
    /\ IF transfer_match(login_resp.val) = "relay"
         THEN /\ relay' = Some([urls |-> login_resp.val.transfer_urls.val,
                                params |-> login_resp.val.transfer_parameters.val,
                                next |-> 1])
              /\ pc' = "transfer_login"
              /\ sent' = <<>>
              /\ result' = Pending
              /\ UNCHANGED <<session, cookies>>
         ELSE /\ relay' = None
              /\ Bail(Err("anyhow", transfer_match(login_resp.val)))
    /\ UNCHANGED login_resp

\* the loop posting to the first url on every turn
next_transfer_url_first(r) == r.urls[1]

\* `for url in urls`: the url of this turn of the loop
next_transfer_url(r) == r.urls[r.next]

\* the loop swallowing a failed send and going on to the next url
transfer_login_relay_ignores_failure ==
    /\ pc = "transfer_login"
    /\ relay.val.next <= Len(relay.val.urls)
    /\ sent' = Append(sent, client_post(next_transfer_url(relay.val)))
    /\ \E r \in Responses(NoBody) :
         /\ resp' = Some(r)
         /\ cookies' = IF r.ok THEN save_cookies_from_response(cookies, r.set_cookie)
                               ELSE cookies
         /\ relay' = Some([relay.val EXCEPT !.next = @ + 1])
         /\ UNCHANGED <<result, pc>>
    /\ UNCHANGED <<session, op, login_resp, session0, cookies0, disk, loaded>>

\* One turn of the loop 238-242: post to the next url, merge its cookies.
transfer_login_relay ==
    /\ pc = "transfer_login"
    /\ relay.val.next <= Len(relay.val.urls)
    /\ sent' = Append(sent, client_post(next_transfer_url(relay.val)))
    /\ \E r \in Responses(NoBody) :
         /\ resp' = Some(r)
         /\ IF ~r.ok
              THEN /\ result' = Err("reqwest", "send")
                   /\ pc' = "idle"
                   /\ UNCHANGED <<cookies, relay>>
              ELSE /\ cookies' = save_cookies_from_response(cookies, r.set_cookie)
                   /\ relay' = Some([relay.val EXCEPT !.next = @ + 1])
                   /\ UNCHANGED <<result, pc>>
    /\ UNCHANGED <<session, op, login_resp, session0, cookies0, disk, loaded>>

\* After the loop, 244-252.
transfer_login_finish ==
    /\ pc = "transfer_login"
    /\ relay.val.next > Len(relay.val.urls)
    /\ IF build_session(cookies, TransferOAuth(relay.val.params)).kind = "panic"
         THEN Finish(build_session(cookies, TransferOAuth(relay.val.params)),
                     session, cookies)
         ELSE Finish(Ok(TransferOAuth(relay.val.params)),
                     Some(build_session(cookies, TransferOAuth(relay.val.params)).val),
                     cookies)
    /\ UNCHANGED <<login_resp, relay, resp>>

\* ------------------------------------------------------------- phoneajax
\* 274-287: the sessionid parameter unwraps the session before the request
phoneajax_send(name) ==
    /\ Enter(name)
    /\ IF session.some
         THEN Block("phoneajax",
                    request(session, cookies, "https://steamcommunity.com/steamguard/phoneajax"),
                    request_cookies(session, cookies))
         ELSE Bail(Panic("called Option::unwrap() on a None value"))
    /\ login_resp' = None
    /\ relay' = None

has_phone == phoneajax_send("has_phone")

check_sms_code == phoneajax_send("check_sms_code")

check_email_confirmation == phoneajax_send("check_email_confirmation")

phoneajax_recv ==
    /\ pc = "phoneajax"
    /\ \E r \in Responses(PhoneAjaxBodies) :
         /\ resp' = Some(r)
         /\ IF ~r.ok
              THEN Finish(Err("reqwest", "send"), session, cookies)
            ELSE IF r.body.kind = "undecodable"
              THEN Finish(Err("reqwest", "decode"), session, cookies)
            ELSE Finish(phoneajax_probe(r.body.val), session, cookies)
    /\ UNCHANGED <<login_resp, relay>>

\* add_phone_number 349-352
add_phone_number ==
    /\ Enter("add_phone_number")
    /\ Bail(Panic("not yet implemented"))
    /\ login_resp' = None
    /\ relay' = None

\* -------------------------------------------------------- phone_validate
phone_validate_send ==
    /\ Enter("phone_validate")
    /\ IF session.some
         THEN Block("phone_validate",
                    client_post("https://store.steampowered.com/phone/validate"),
                    cookies)
         ELSE Bail(Panic("called Option::unwrap() on a None value"))
    /\ login_resp' = None
    /\ relay' = None

phone_validate_recv ==
    /\ pc = "phone_validate"
    /\ \E r \in Responses(EnvelopeBodies \ {[kind |-> "text_err"]}) :
         /\ resp' = Some(r)
         /\ IF ~r.ok
              THEN Finish(Err("reqwest", "send"), session, cookies)
            ELSE IF r.body.kind = "undecodable"
              THEN Finish(Err("reqwest", "decode"), session, cookies)
            ELSE Finish(Ok("PhoneValidateResponse"), session, cookies)
    /\ UNCHANGED <<login_resp, relay>>

\* ------------------------------------------------- authenticator lifecycle
\* What is left of a typed-envelope method after send(): text(), from_str.
envelope_result(body, name) ==
    IF body.kind = "text_err" THEN Err("reqwest", "body")
    ELSE IF body.kind = "undecodable" THEN Err("serde_json", "decode")
    ELSE Ok(name)

add_authenticator_send ==
    /\ Enter("add_authenticator")
    /\ IF session.some
         THEN Block("add_authenticator",
                    request(session, cookies,
                            "https://api.steampowered.com/ITwoFactorService/AddAuthenticator/v0001"),
                    request_cookies(session, cookies))
         ELSE Bail(Err("anyhow", "Condition failed: matches!(self.session, Some(_))"))
    /\ login_resp' = None
    /\ relay' = None

add_authenticator_recv ==
    /\ pc = "add_authenticator"
    /\ \E r \in Responses(EnvelopeBodies) :
         /\ resp' = Some(r)
         /\ IF ~r.ok
              THEN Finish(Err("reqwest", "send"), session, cookies)
              ELSE Finish(envelope_result(r.body, "AddAuthenticatorResponse"), session,
                          save_cookies_from_response(cookies, r.set_cookie))
    /\ UNCHANGED <<login_resp, relay>>

finalize_authenticator_send ==
    /\ Enter("finalize_authenticator")
    /\ IF session.some
         THEN Block("finalize_authenticator",
                    request(session, cookies,
                            "https://api.steampowered.com/ITwoFactorService/FinalizeAddAuthenticator/v0001"),
                    request_cookies(session, cookies))
         ELSE Bail(Err("anyhow", "Condition failed: matches!(self.session, Some(_))"))
    /\ login_resp' = None
    /\ relay' = None

finalize_authenticator_recv ==
    /\ pc = "finalize_authenticator"
    /\ \E r \in Responses(EnvelopeBodies) :
         /\ resp' = Some(r)
         /\ IF ~r.ok
              THEN Finish(Err("reqwest", "send"), session, cookies)
              ELSE Finish(envelope_result(r.body, "FinalizeAddAuthenticatorResponse"),
                          session, cookies)
    /\ UNCHANGED <<login_resp, relay>>

\* 454-459: the parameters unwrap the session before the request
remove_authenticator_send ==
    /\ Enter("remove_authenticator")
    /\ IF session.some
         THEN Block("remove_authenticator",
                    request(session, cookies,
                            "https://api.steampowered.com/ITwoFactorService/RemoveAuthenticator/v0001"),
                    request_cookies(session, cookies))
         ELSE Bail(Panic("called Option::unwrap() on a None value"))
    /\ login_resp' = None
    /\ relay' = None

remove_authenticator_recv ==
    /\ pc = "remove_authenticator"
    /\ \E r \in Responses(EnvelopeBodies) :
         /\ resp' = Some(r)
         /\ IF ~r.ok
              THEN Finish(Err("reqwest", "send"), session, cookies)
              ELSE Finish(envelope_result(r.body, "RemoveAuthenticatorResponse"),
                          session, cookies)
    /\ UNCHANGED <<login_resp, relay>>

\* ------------------------------------------------------------------ Spec
Next ==
    \/ update_session_send
    \/ update_session_recv
    \/ login_send
    \/ login_recv
    \/ transfer_login
    \/ transfer_login_relay
    \/ transfer_login_finish
    \/ has_phone
    \/ check_sms_code
    \/ check_email_confirmation
    \/ phoneajax_recv
    \/ add_phone_number
    \/ phone_validate_send
    \/ phone_validate_recv
    \/ add_authenticator_send
    \/ add_authenticator_recv
    \/ finalize_authenticator_send
    \/ finalize_authenticator_recv
    \/ remove_authenticator_send
    \/ remove_authenticator_recv

Spec == Init /\ [][Next]_vars

\* ------------------------------------------------- Session on disk (serde)
\* #[derive(Serialize, Deserialize)] on Session, 23-38, through serde_json.
\* A document is the object's keys, each absent or holding a JSON value;
\* a string holds its escaped text, a number its decimal text.
SessionKeys ==
    {"SessionID", "SteamLogin", "SteamLoginSecure", "WebCookie", "OAuthToken", "SteamID"}

JStr(text) == [t |-> "string", text |-> text]
JNum(text) == [t |-> "number", text |-> text]

\* serde_json writes a string with its quotes and backslashes escaped
RECURSIVE Escape(_)
Escape(str) ==
    IF str = <<>> THEN <<>>
    ELSE (IF Head(str) \in {"\"", "\\"} THEN <<"\\", Head(str)>> ELSE <<Head(str)>>)
             \o Escape(Tail(str))

\* and reads one back by dropping the backslash before an escaped character
RECURSIVE Unescape(_)
Unescape(text) ==
    IF text = <<>> THEN <<>>
    ELSE IF Head(text) = "\\" /\ Len(text) >= 2
      THEN <<text[2]>> \o Unescape(Tail(Tail(text)))
    ELSE <<Head(text)>> \o Unescape(Tail(text))

\* session_id is kept as one piece of text in the jar: its characters.
Units(str) == <<str>>

RECURSIVE Join(_)
Join(seq) == IF seq = <<>> THEN "" ELSE Head(seq) \o Join(Tail(seq))

\* a u64 written in decimal (itoa)
DigitChars == <<"0","1","2","3","4","5","6","7","8","9">>

RECURSIVE ToDigits(_)
ToDigits(n) ==
    IF n < 10 THEN <<DigitChars[n + 1]>>
    ELSE ToDigits(n \div 10) \o <<DigitChars[(n % 10) + 1]>>

\* a serializer that writes an absent web_cookie as the empty string
Serialize_none_as_empty(sess) ==
    [k \in SessionKeys |->
        CASE k = "SessionID" -> Some(JStr(Escape(Units(sess.session_id))))
          [] k = "SteamLogin" -> Some(JStr(Escape(sess.steam_login)))
          [] k = "SteamLoginSecure" -> Some(JStr(Escape(sess.steam_login_secure)))
          [] k = "WebCookie" -> Some(IF sess.web_cookie.some
                                       THEN JStr(Escape(sess.web_cookie.val))
                                       ELSE JStr(<<>>))
          [] k = "OAuthToken" -> Some(JStr(Escape(sess.token)))
          [] k = "SteamID" -> Some(JNum(ToDigits(sess.steam_id)))]

\* Serialize for Session: every field under its renamed key; web_cookie
\* (no skip_serializing_if) is written as null when it is None.
Serialize(sess) ==
    [k \in SessionKeys |->
        CASE k = "SessionID" -> Some(JStr(Escape(Units(sess.session_id))))
          [] k = "SteamLogin" -> Some(JStr(Escape(sess.steam_login)))
          [] k = "SteamLoginSecure" -> Some(JStr(Escape(sess.steam_login_secure)))
          [] k = "WebCookie" -> Some(IF sess.web_cookie.some
                                       THEN JStr(Escape(sess.web_cookie.val))
                                       ELSE JNull)
          [] k = "OAuthToken" -> Some(JStr(Escape(sess.token)))
          [] k = "SteamID" -> Some(JNum(ToDigits(sess.steam_id)))]

\* Deserialize of a String field: the key must be there and hold a string
StringField(doc, k) ==
    IF ~doc[k].some THEN Err("serde_json", "missing field " \o k)
    ELSE IF doc[k].val.t # "string" THEN Err("serde_json", "invalid type at " \o k)
    ELSE Ok(Unescape(doc[k].val.text))

\* Deserialize of the u64 field: a JSON number that is a non-negative
\* integer below 2^64; a string, null, a negative, a fraction, or a number
\* too large is an error of the deserializer.
U64Field(doc, k) ==
    IF ~doc[k].some THEN Err("serde_json", "missing field " \o k)
    ELSE IF doc[k].val.t # "number" THEN Err("serde_json", "invalid type at " \o k)
    ELSE IF \E i \in 1..Len(doc[k].val.text) : doc[k].val.text[i] \notin Digits
      THEN Err("serde_json", "invalid type at " \o k)
    ELSE IF OverflowsU64(doc[k].val.text)
      THEN Err("serde_json", "invalid type at " \o k)
    ELSE Ok(Horner(0, doc[k].val.text))

\* Deserialize of web_cookie: Option<String> with #[serde(default)]; a
\* missing key and null both give None.
OptionStringField(doc, k) ==
    IF ~doc[k].some THEN Ok(None)
    ELSE IF doc[k].val.t = "null" THEN Ok(None)
    ELSE IF doc[k].val.t # "string" THEN Err("serde_json", "invalid type at " \o k)
    ELSE Ok(Some(Unescape(doc[k].val.text)))

\* Deserialize for Session: the first field that fails is the error.
Deserialize(doc) ==
    LET sid == StringField(doc, "SessionID")
        sl == StringField(doc, "SteamLogin")
        sls == StringField(doc, "SteamLoginSecure")
        wc == OptionStringField(doc, "WebCookie")
        tok == StringField(doc, "OAuthToken")
        id == U64Field(doc, "SteamID")
    IN
    IF sid.kind = "err" THEN sid
    ELSE IF sl.kind = "err" THEN sl
    ELSE IF sls.kind = "err" THEN sls
    ELSE IF wc.kind = "err" THEN wc
    ELSE IF tok.kind = "err" THEN tok
    ELSE IF id.kind = "err" THEN id
    ELSE Ok([token |-> tok.val, steam_id |-> id.val,
             steam_login |-> sl.val, steam_login_secure |-> sls.val,
             session_id |-> Join(sid.val), web_cookie |-> wc.val])

\* The Sessions a caller may hold when it saves one.
SerdeSessions ==
    [token : {<<"T">>, <<>>},
     steam_id : {0, 1, 76, 1000},
     steam_login : {<<"1">> \o Sep \o <<"A">>, <<"\"">>},
     steam_login_secure : {<<"1">> \o Sep \o <<"B">>, <<"\\", "n">>},
     session_id : SidVals,
     web_cookie : {None, Some(<<>>), Some(<<"W", "\"">>)}]

\* What the SteamID key may hold in a file that was not written from a
\* Session as it is: a string, null, a number that is no u64, or nothing.
ForeignSteamIds ==
    {Some(JStr(<<"x">>)), Some(JStr(<<"7", "6">>)), Some(JNull),
     Some(JNum(<<"-", "1">>)), Some(JNum(<<"1", ".", "5">>)),
     Some(JNum(TwoPow64Digits)), None}

InitSerde ==
    /\ session \in {Some(sess) : sess \in SerdeSessions}
    /\ cookies = EmptyJar
    /\ pc = "idle"
    /\ op = "new"
    /\ sent = <<>>
    /\ result = Ok("client")
    /\ login_resp = None
    /\ relay = None
    /\ session0 = session
    /\ cookies0 = cookies
    /\ resp = None
    /\ disk = None
    /\ loaded = None

\* serde_json::to_string(&session)
serialize ==
    /\ disk = None
    /\ disk' = Some(Serialize(session.val))
    /\ UNCHANGED <<session, cookies, pc, op, sent, result, login_resp, relay,
                   session0, cookies0, resp, loaded>>

\* The file is changed outside the program: another SteamID value.
edit_steam_id ==
    /\ disk.some
    /\ loaded = None
    /\ disk.val = Serialize(session.val)
    /\ \E v \in ForeignSteamIds : disk' = Some([disk.val EXCEPT !["SteamID"] = v])
    /\ UNCHANGED <<session, cookies, pc, op, sent, result, login_resp, relay,
                   session0, cookies0, resp, loaded>>

\* The file is changed outside the program: a null WebCookie key left out.
omit_web_cookie ==
    /\ disk.some
    /\ loaded = None
    /\ disk.val["WebCookie"] = Some(JNull)
    /\ disk' = Some([disk.val EXCEPT !["WebCookie"] = None])
    /\ UNCHANGED <<session, cookies, pc, op, sent, result, login_resp, relay,
                   session0, cookies0, resp, loaded>>

\* serde_json::from_str::<Session>(..)
deserialize ==
    /\ disk.some
    /\ loaded = None
    /\ loaded' = Some(Deserialize(disk.val))
    /\ UNCHANGED <<session, cookies, pc, op, sent, result, login_resp, relay,
                   session0, cookies0, resp, disk>>

NextSerde ==
    \/ serialize
    \/ edit_steam_id
    \/ omit_web_cookie
    \/ deserialize

SpecSerde == InitSerde /\ [][NextSerde]_vars

\* ================================================================ claims
\* The value of the steamid strings that are unsigned integers.
NumericSteamId == (<<"1">> :> 1) @@ (<<"+", "7", "6">> :> 76)

\* login() got a response whose body is a LoginResponse
LoginDecoded ==
    op = "login" /\ resp.some /\ resp.val.ok /\ resp.val.body.kind = "json"

HasCookie(req, name) ==
    req.cookie.some /\ \E i \in 1..Len(req.cookie.val) : req.cookie.val[i][1] = name

\* C1: a login whose response carries an inline OAuth payload with a numeric
\* steamid, with a sessionid cookie in the jar once the response's cookies
\* are merged, returns Ok and leaves a session whose token, steam_id,
\* steam_login ("steamid%7C%7Cwgtoken"), steam_login_secure
\* ("steamid%7C%7Cwgtoken_secure") come from the payload and whose
\* session_id is the jar's sessionid cookie.
C1_InlineOAuthBuildsSession ==
    (/\ LoginDecoded
     /\ resp.val.body.val.oauth.some
     /\ resp.val.body.val.oauth.val.steamid \in DOMAIN NumericSteamId
     /\ cookies["sessionid"].some)
    => LET o == resp.val.body.val.oauth.val IN
       /\ pc = "idle"
       /\ result.kind = "ok"
       /\ session.some
       /\ session.val.token = o.oauth_token
       /\ session.val.steam_id = NumericSteamId[o.steamid]
       /\ session.val.steam_login = o.steamid \o <<"%","7","C","%","7","C">> \o o.wgtoken
       /\ session.val.steam_login_secure
              = o.steamid \o <<"%","7","C","%","7","C">> \o o.wgtoken_secure
       /\ session.val.session_id = cookies["sessionid"].val

C1_Witness ==
    /\ LoginDecoded
    /\ resp.val.body.val.oauth.some
    /\ pc = "idle"
    /\ result.kind = "ok"
    /\ session.some
    /\ session.val.steam_id = 76
    /\ session.val.session_id = "s2"
    /\ session0 = None

\* C2: when transfer_login is given a login result with transfer urls and
\* parameters and no inline payload, the relays it has sent are the urls of
\* the list, one each, in list order; the session is not touched while a url
\* is left; unless a relay's send failed every url has been posted to when the
\* step ends; and when it returns Ok the session's token and steam_id are
\* the auth and steamid of transfer_parameters.
C2_OneRelayPerUrlThenSession ==
    (/\ op = "transfer_login"
     /\ ~login_resp.val.oauth.some
     /\ login_resp.val.transfer_urls.some
     /\ login_resp.val.transfer_parameters.some)
    => LET urls == login_resp.val.transfer_urls.val
           params == login_resp.val.transfer_parameters.val
           failed == result = Err("reqwest", "send")
       IN
       /\ Len(sent) <= Len(urls)
       /\ \A i \in 1..Len(sent) : sent[i].url = urls[i]
       /\ (pc = "transfer_login" \/ Len(sent) < Len(urls)) => session = session0
       /\ (pc # "transfer_login" /\ ~failed) => Len(sent) = Len(urls)
       /\ (/\ pc # "transfer_login"
           /\ ~failed
           /\ params.steamid \in DOMAIN NumericSteamId
           /\ cookies["sessionid"].some) => (pc = "idle" /\ result.kind = "ok")
       /\ (pc = "idle" /\ result.kind = "ok")
            => /\ session.some
               /\ session.val.token = params.auth
               /\ session.val.steam_id = NumericSteamId[params.steamid]

C2_Witness ==
    /\ op = "transfer_login"
    /\ ~login_resp.val.oauth.some
    /\ pc = "idle"
    /\ result.kind = "ok"
    /\ Len(sent) = 2
    /\ sent[1].url # sent[2].url
    /\ session # session0

\* C3: a login result with neither an inline payload nor transfer data
\* leaves the session as it was when login() returns it, and transfer_login
\* fails on it with the error of the (None, None) arm, sends nothing and
\* leaves the session as it was.
NeitherPayloadNorTransfer(lr) ==
    ~lr.oauth.some /\ ~lr.transfer_urls.some /\ ~lr.transfer_parameters.some

C4_HalfTransferDataIsProtocolError ==
    (/\ op = "transfer_login"
     /\ login_resp.val.transfer_urls.some # login_resp.val.transfer_parameters.some)
    => /\ pc = "idle"
       /\ result.kind = "err"
       /\ result.msg # "did not receive transfer_urls and transfer_parameters"
       /\ result.msg = IF login_resp.val.transfer_urls.some
                         THEN "did not receive transfer_parameters"
                         ELSE "did not receive transfer_urls"
       /\ sent = <<>>
       /\ session = session0

C4_Witness ==
    /\ op = "transfer_login"
    /\ login_resp.val.transfer_urls.some
    /\ Len(login_resp.val.transfer_urls.val) = 2
    /\ ~login_resp.val.transfer_parameters.some
    /\ result.kind = "err"
    /\ sent = <<>>

\* C5: every authenticated operation entered without a session returns an
\* error value, sends nothing and leaves session and jar unchanged.
AuthenticatedOps ==
    {"has_phone", "check_sms_code", "check_email_confirmation", "phone_validate",
     "add_authenticator", "finalize_authenticator", "remove_authenticator"}

C5_NoSessionIsPreconditionError ==
    (op \in AuthenticatedOps /\ ~session0.some)
    => /\ pc = "idle"
       /\ result.kind = "err"
       /\ sent = <<>>
       /\ session = session0
       /\ cookies = cookies0

\* C6: every request sent carries a Cookie header with the three identity
\* cookies and, when the client had a session, a sessionid cookie.
C6_EveryRequestCarriesCookies ==
    \A i \in 1..Len(sent) :
        /\ HasCookie(sent[i], "mobileClientVersion")
        /\ HasCookie(sent[i], "mobileClient")
        /\ HasCookie(sent[i], "Steam_Language")
        /\ session0.some => HasCookie(sent[i], "sessionid")

\* C7: a request built by the request facade while the client has a session
\* carries exactly one sessionid cookie, and its value is the session's
\* session_id, whatever sessionid the jar held before.
C7_FacadeSendsTheSessionsId ==
    \A i \in 1..Len(sent) :
        (sent[i].via = "request" /\ session0.some)
        => /\ HasCookie(sent[i], "sessionid")
           /\ \A j \in 1..Len(sent[i].cookie.val) :
                  sent[i].cookie.val[j][1] = "sessionid"
                  => sent[i].cookie.val[j][2] = session0.val.session_id

C7_Witness ==
    /\ sent # <<>>
    /\ sent[1].via = "request"
    /\ session0.some
    /\ cookies0["sessionid"].some
    /\ cookies0["sessionid"].val # session0.val.session_id
    /\ HasCookie(sent[1], "sessionid")

\* C8: a steamid that is no unsigned integer makes login (inline payload) and
\* transfer_login (transfer parameters) return a MalformedSession error
\* value, with the session left as it was.
C8_BadSteamIdIsMalformedSession ==
    /\ (/\ LoginDecoded
        /\ resp.val.body.val.oauth.some
        /\ resp.val.body.val.oauth.val.steamid \notin DOMAIN NumericSteamId)
       => (pc = "idle" /\ result.kind = "err" /\ result.msg = "MalformedSession"
           /\ session = session0)
    /\ (/\ op = "transfer_login"
        /\ relay.some
        /\ pc # "transfer_login"
        /\ result # Err("reqwest", "send")
        /\ relay.val.params.steamid \notin DOMAIN NumericSteamId)
       => (pc = "idle" /\ result.kind = "err" /\ result.msg = "MalformedSession"
           /\ session = session0)

\* C9 as stated: the result of a phone ajax operation is the boolean
\* has_phone if there is one, else the boolean success if there is one, else
\* false, never an error.
AjaxAnswered ==
    /\ op \in {"has_phone", "check_sms_code", "check_email_confirmation"}
    /\ resp.some
    /\ resp.val.ok
    /\ resp.val.body.kind = "json"

IsBoolField(v, k) ==
    v.t = "object" /\ k \in DOMAIN v.fields /\ v.fields[k].t = "bool"

IsSetField(v, k) ==
    v.t = "object" /\ k \in DOMAIN v.fields /\ v.fields[k].t # "null"

C9_ProbeSkipsNonBoolean ==
    AjaxAnswered
    => LET v == resp.val.body.val IN
       result = IF IsBoolField(v, "has_phone") THEN Ok(v.fields["has_phone"].b)
                ELSE IF IsBoolField(v, "success") THEN Ok(v.fields["success"].b)
                ELSE Ok(FALSE)

\* C9 amended: the result is decided by the first of has_phone, success that
\* is present and not null: its value if it is a boolean, an error if it is
\* not; with neither (or a body that is no object) it is false, no error.
C9_ProbeStopsAtFirstSetField ==
    AjaxAnswered
    => LET v == resp.val.body.val IN
       /\ pc = "idle"
       /\ result =
            IF IsSetField(v, "has_phone")
              THEN IF IsBoolField(v, "has_phone")
                     THEN Ok(v.fields["has_phone"].b)
                     ELSE Err("anyhow", "failed to parse has_phone field into boolean")
            ELSE IF IsSetField(v, "success")
              THEN IF IsBoolField(v, "success")
                     THEN Ok(v.fields["success"].b)
                     ELSE Err("anyhow", "failed to parse success field into boolean")
            ELSE Ok(FALSE)

C9_Witness ==
    /\ AjaxAnswered
    /\ IsSetField(resp.val.body.val, "has_phone")
    /\ ~IsBoolField(resp.val.body.val, "has_phone")
    /\ IsBoolField(resp.val.body.val, "success")
    /\ result.kind = "err"

\* C10: for a login result that carries an inline OAuth payload no relay is
\* ever sent and the session built from the payload is not replaced.
C10_NoTransferAfterInlineOAuth ==
    (op = "transfer_login" /\ login_resp.val.oauth.some)
    => (sent = <<>> /\ session = session0)

\* C11: nothing is retried.  login and the authenticated operations send at
\* most one request per call; a send that fails ends the method at once
\* with that error, jar and session as they were; in transfer_login the
\* failed relay is the last request sent, the urls after it are not
\* contacted, and the session is the one the step started with.
SingleCallOps ==
    AuthenticatedOps \cup {"login", "update_session", "add_phone_number"}

C11_NoRetryAfterTransportFailure ==
    /\ op \in SingleCallOps => Len(sent) <= 1
    /\ (resp.some /\ ~resp.val.ok)
         => /\ pc = "idle"
            /\ result = [kind |-> "err", class |-> "reqwest", msg |-> "send"]
            /\ session = session0
            /\ sent # <<>>
            /\ op = "transfer_login"
                 => /\ Len(sent) <= Len(login_resp.val.transfer_urls.val)
                    /\ \A i \in 1..Len(sent) :
                           sent[i].url = login_resp.val.transfer_urls.val[i]

C11_Witness ==
    /\ op = "transfer_login"
    /\ resp.some
    /\ ~resp.val.ok
    /\ Len(login_resp.val.transfer_urls.val) = 2
    /\ Len(sent) = 1
    /\ pc = "idle"
    /\ result.kind = "err"

\* C12: the session differs from the one the operation started with only
\* after login or transfer_login returned Ok, and then every field of it is
\* the one built from the payload and the jar's sessionid, none kept from
\* the old record; update_session, the phone operations, phone_validate,
\* add_authenticator, finalize_authenticator, remove_authenticator, and a
\* login or transfer that ended in an error, leave the session as it was.
BuiltFrom(sess, o, jar) ==
    /\ sess.token = o.oauth_token
    /\ sess.steam_id = NumericSteamId[o.steamid]
    /\ sess.steam_login = o.steamid \o <<"%","7","C","%","7","C">> \o o.wgtoken
    /\ sess.steam_login_secure
           = o.steamid \o <<"%","7","C","%","7","C">> \o o.wgtoken_secure
    /\ sess.web_cookie = Some(o.webcookie)
    /\ jar["sessionid"].some
    /\ sess.session_id = jar["sessionid"].val

C12_SessionOnlyReplacedByLogin ==
    /\ op \notin {"login", "transfer_login"} => session = session0
    /\ result.kind # "ok" => session = session0
    /\ session # session0
         => /\ pc = "idle"
            /\ session.some
            /\ op = "login"
                 => /\ LoginDecoded
                    /\ resp.val.body.val.oauth.some
                    /\ BuiltFrom(session.val, resp.val.body.val.oauth.val, cookies)
            /\ op = "transfer_login"
                 => LET p == login_resp.val.transfer_parameters.val IN
                    BuiltFrom(session.val,
                              [oauth_token |-> p.auth, steamid |-> p.steamid,
                               wgtoken |-> p.token_secure,
                               wgtoken_secure |-> p.token_secure,
                               webcookie |-> p.webcookie],
                              cookies)

C12_Witness ==
    /\ op = "login"
    /\ pc = "idle"
    /\ result.kind = "ok"
    /\ session0.some
    /\ session.some
    /\ session.val.token # session0.val.token
    /\ session.val.steam_id # session0.val.steam_id

C12_WitnessUnchanged ==
    /\ op = "add_authenticator"
    /\ pc = "idle"
    /\ result.kind = "ok"
    /\ session0.some
    /\ session = session0
    /\ cookies # cookies0

\* C13: building a request is idempotent.  Whatever the jar and the session
\* are, building a second request right after the first gives the Cookie
\* header and the jar the first one gave; and while a request built by the
\* facade is on the wire, the jar is the one a rebuild would leave and the
\* header sent is the one a rebuild would send.
C13_RequestIsIdempotent ==
    LET once == request_cookies(session, cookies)
        twice == request_cookies(session, once)
    IN
    /\ twice = once
    /\ request(session, once, "u").cookie = request(session, cookies, "u").cookie
    /\ (pc \notin {"idle", "panicked"} /\ sent # <<>> /\ sent[1].via = "request")
         => /\ once = cookies
            /\ request(session, cookies, sent[1].url) = sent[1]

C13_Witness ==
    /\ pc \notin {"idle", "panicked"}
    /\ sent # <<>>
    /\ sent[1].via = "request"
    /\ session.some
    /\ cookies0["sessionid"].some
    /\ cookies0["sessionid"].val # session.val.session_id
    /\ cookies["sessionid"].val = session.val.session_id
    /\ request(session, cookies, sent[1].url) = sent[1]

\* C14: merging a response's cookies never aborts.  After a response was
\* merged, every name that a well-formed Set-Cookie header of it sets holds
\* the value of the last such header, whatever malformed headers stand
\* before, between or after them; a name no well-formed header sets is as
\* the request left it; and the operation went on: update_session returned
\* Ok, login and add_authenticator returned what the body decides, the
\* transfer loop went on to the next url.
WellFormed(list, n) ==
    {i \in 1..Len(list) : list[i].text /\ list[i].str.parses /\ list[i].str.name = n}

Malformed(list) ==
    {i \in 1..Len(list) : ~list[i].text \/ ~list[i].str.parses}

LastIndex(S) == CHOOSE i \in S : \A j \in S : j <= i

MergedOver(before, list, jar) ==
    \A n \in CookieNames :
        IF WellFormed(list, n) # {}
          THEN jar[n] = Some(list[LastIndex(WellFormed(list, n))].str.value)
          ELSE jar[n] = before[n]

C14_MalformedSetCookieIsSkipped ==
    /\ (op \in {"update_session", "login", "add_authenticator"}
          /\ resp.some /\ resp.val.ok)
         => /\ sent[1].cookie.some
            /\ MergedOver([n \in CookieNames |->
                              IF \E i \in 1..Len(sent[1].cookie.val) :
                                     sent[1].cookie.val[i][1] = n
                                THEN Some((CHOOSE pr \in {sent[1].cookie.val[i] :
                                                i \in 1..Len(sent[1].cookie.val)} :
                                              pr[1] = n)[2])
                                ELSE None],
                          resp.val.set_cookie, cookies)
            /\ op = "update_session" => (pc = "idle" /\ result = Ok("()"))
            /\ (op = "add_authenticator" /\ resp.val.body.kind = "json")
                 => (pc = "idle" /\ result.kind = "ok")
            /\ (op = "login" /\ resp.val.body.kind = "json"
                  /\ ~resp.val.body.val.oauth.some)
                 => (pc = "idle" /\ result.kind = "ok")
    /\ (op = "transfer_login" /\ resp.some /\ resp.val.ok)
         => /\ \A n \in CookieNames :
                  WellFormed(resp.val.set_cookie, n) # {}
                    => cookies[n] = Some(resp.val.set_cookie[
                                LastIndex(WellFormed(resp.val.set_cookie, n))].str.value)
            /\ result # Err("reqwest", "send")
            /\ pc = "transfer_login" => relay.val.next = Len(sent) + 1

C14_Witness ==
    /\ op = "update_session"
    /\ resp.some
    /\ resp.val.ok
    /\ Len(resp.val.set_cookie) = 2
    /\ 1 \in Malformed(resp.val.set_cookie)
    /\ 2 \in WellFormed(resp.val.set_cookie, "sessionid")
    /\ session.some
    /\ cookies["sessionid"] = Some("s2")
    /\ session.val.session_id = "s1"
    /\ result = Ok("()")

\* C15: a Session that was serialized and is deserialized from what was
\* written comes back Ok with all six fields as they were (web_cookie absent
\* stays absent, a null WebCookie key left out included); a document whose
\* SteamID is no number (a string, even one of digits, or null) fails to
\* deserialize with the deserializer's error about that field, which is
\* the error the specification names MalformedSession.
C15_SessionRoundTrips ==
    loaded.some
    => /\ disk.val = Serialize(session.val) => loaded.val = Ok(session.val)
       /\ (\A k \in SessionKeys \ {"WebCookie"} :
               disk.val[k] = Serialize(session.val)[k])
            => /\ loaded.val.kind = "ok"
               /\ \A f \in {"session_id", "steam_login", "steam_login_secure",
                            "web_cookie", "token", "steam_id"} :
                      loaded.val.val[f] = session.val[f]
       /\ (disk.val["SteamID"].some /\ disk.val["SteamID"].val.t # "number")
            => loaded.val = Err("serde_json", "invalid type at SteamID")

C15_Witness ==
    /\ loaded.some
    /\ disk.val = Serialize(session.val)
    /\ loaded.val = Ok(session.val)
    /\ session.val.web_cookie = None
    /\ session.val.steam_login = <<"\"">>
    /\ session.val.steam_id = 1000

C15_WitnessNonNumeric ==
    /\ loaded.some
    /\ disk.val["SteamID"] = Some(JStr(<<"7", "6">>))
    /\ loaded.val.kind = "err"

\* C16: login merges the response's cookies before it decodes the body.
\* When the body is text that is no login result, login returns the decode
\* error, the session is the one it started with, and every cookie a
\* well-formed Set-Cookie header of that response set is in the jar with
\* the value of the last such header.
C16_CookiesMergedBeforeDecode ==
    (/\ op = "login"
     /\ resp.some
     /\ resp.val.ok
     /\ resp.val.body.kind = "undecodable")
    => /\ pc = "idle"
       /\ result = Err("serde_json", "decode")
       /\ session = session0
       /\ \A n \in CookieNames :
              WellFormed(resp.val.set_cookie, n) # {}
                => cookies[n] = Some(resp.val.set_cookie[
                          LastIndex(WellFormed(resp.val.set_cookie, n))].str.value)

C16_Witness ==
    /\ op = "login"
    /\ resp.some
    /\ resp.val.ok
    /\ resp.val.body.kind = "undecodable"
    /\ WellFormed(resp.val.set_cookie, "sessionid") # {}
    /\ cookies0["sessionid"] = None
    /\ session0 = None
    /\ cookies["sessionid"] = Some("s2")
    /\ result.kind = "err"

\* C17: when the jar holds no sessionid cookie at the moment the session is
\* built (inline payload in login, or the end of the transfer loop), with
\* a steamid that parses, the method panics with "failed to extract session
\* id from cookies" and the session stays the one it started with; and a
\* session that was stored has the jar's sessionid cookie as its
\* session_id, never a value the jar does not hold.
TransferMaterialized ==
    /\ op = "transfer_login"
    /\ login_resp.val.transfer_urls.some
    /\ login_resp.val.transfer_parameters.some
    /\ pc # "transfer_login"
    /\ result # Err("reqwest", "send")

C17_NoSessionIdIsFatal ==
    /\ (/\ LoginDecoded
        /\ resp.val.body.val.oauth.some
        /\ resp.val.body.val.oauth.val.steamid \in DOMAIN NumericSteamId
        /\ ~cookies["sessionid"].some)
         => /\ pc = "panicked"
            /\ result = Panic("failed to extract session id from cookies")
            /\ session = session0
    /\ (/\ TransferMaterialized
        /\ login_resp.val.transfer_parameters.val.steamid \in DOMAIN NumericSteamId
        /\ ~cookies["sessionid"].some)
         => /\ pc = "panicked"
            /\ result = Panic("failed to extract session id from cookies")
            /\ session = session0
    /\ session # session0
         => /\ session.some
            /\ cookies["sessionid"].some
            /\ session.val.session_id = cookies["sessionid"].val
            /\ session.val.session_id \in SidVals

C17_Witness ==
    /\ LoginDecoded
    /\ resp.val.body.val.oauth.some
    /\ resp.val.body.val.oauth.val.steamid \in DOMAIN NumericSteamId
    /\ ~cookies["sessionid"].some
    /\ pc = "panicked"
    /\ session = None

C17_WitnessTransfer ==
    /\ TransferMaterialized
    /\ login_resp.val.transfer_parameters.val.steamid \in DOMAIN NumericSteamId
    /\ ~cookies["sessionid"].some
    /\ Len(sent) = 2
    /\ pc = "panicked"

\* C18: after a transfer step that returned Ok, the session's steam_login
\* and steam_login_secure are the same text, the steamid of
\* transfer_parameters, "%7C%7C", and its token_secure; web_cookie is its
\* webcookie.
C18_TransferReusesSecureToken ==
    (TransferMaterialized /\ result.kind = "ok")
    => LET p == login_resp.val.transfer_parameters.val IN
       /\ session.some
       /\ session.val.steam_login = session.val.steam_login_secure
       /\ session.val.steam_login
              = p.steamid \o <<"%","7","C","%","7","C">> \o p.token_secure
       /\ session.val.web_cookie = Some(p.webcookie)

C18_Witness ==
    /\ TransferMaterialized
    /\ result.kind = "ok"
    /\ pc = "idle"
    /\ Len(sent) = 2
    /\ session.some
    /\ session.val.steam_login = <<"1","%","7","C","%","7","C","C">>
    /\ session.val.web_cookie = Some(<<"V">>)
    /\ session # session0

\* C19: a login with an inline payload (steamid a number) on a client that
\* holds a session stores a session whose session_id is the old session's
\* when no well-formed Set-Cookie header of the response names sessionid
\* (whatever sessionid the jar held before the request), and the value of
\* the last such header when there is one.
C19_SessionIdCarriedOver ==
    (/\ LoginDecoded
     /\ resp.val.body.val.oauth.some
     /\ resp.val.body.val.oauth.val.steamid \in DOMAIN NumericSteamId
     /\ session0.some)
    => LET set == WellFormed(resp.val.set_cookie, "sessionid") IN
       /\ pc = "idle"
       /\ result.kind = "ok"
       /\ session.some
       /\ set = {} => session.val.session_id = session0.val.session_id
       /\ set # {} => session.val.session_id
                          = resp.val.set_cookie[LastIndex(set)].str.value

C19_Witness ==
    /\ LoginDecoded
    /\ resp.val.body.val.oauth.some
    /\ session0.some
    /\ WellFormed(resp.val.set_cookie, "sessionid") = {}
    /\ cookies0["sessionid"] = Some("s2")
    /\ session0.val.session_id = "s1"
    /\ session.some
    /\ session.val.session_id = "s1"
    /\ session # session0

C19_WitnessResponseSets ==
    /\ LoginDecoded
    /\ resp.val.body.val.oauth.some
    /\ session0.some
    /\ session0.val.session_id = "s1"
    /\ session.some
    /\ session.val.session_id = "s2"

\* C20: session presence is monotonic.  No step of any operation (login,
\* transfer_login, update_session, the authenticated operations, whether
\* they end in Ok, an error or a panic) takes a client that holds a session
\* to one that holds none.
C20_SessionPresenceIsMonotonic ==
    [][session.some => session'.some]_vars

C20_Witness ==
    /\ session0.some
    /\ op \in {"login", "transfer_login"}
    /\ result.kind \in {"err", "panic"}
    /\ resp.some
    /\ session.some

====
